---- MODULE Spec2Model ----
(***************************************************************************)
(* Pulse of the Unseen: the audio analyzer of the page (startListening,    *)
(* analyzeAudio, detectRhythm, stopListening), the mood-to-motion mapper   *)
(* (grokShapeControl), the phrase route (POST /api/pulse), the page's     *)
(* submit handler (handleSubmit) and the visualization component           *)
(* (PulseVisualization: its effect, animate and the cleanup).              *)
(*                                                                         *)
(* JavaScript numbers are modelled as exact fractions [n, d]; the          *)
(* comparisons the code makes (> 0.5, > 0.6, ...) agree with the exact     *)
(* ones because every constant compared against is the correctly rounded  *)
(* value of the same quotient.  JavaScript strings are sequences of       *)
(* one-character strings, so that trim, toLowerCase, includes and          *)
(* concatenation are computed.                                             *)
(***************************************************************************)
EXTENDS Integers, Sequences, FiniteSets, TLC

VARIABLES
  \* ---- Home: audio capture (page.tsx 292-395)
  isListening,        \* useState(false)
  audioData,          \* useState<AudioData | null>(null)
  audioContextRef,    \* id of the stored AudioContext, 0 = null
  sourceRef,          \* id of the stored source node, 0 = null
  analyserRef,        \* id of the stored analyser, 0 = null
  dataArrayRef,       \* id of the stored Uint8Array, 0 = null
  intensityHistory,   \* intensityHistoryRef.current
  pendingMic,         \* getUserMedia promises not yet settled
  loops,              \* analyzeAudio callbacks waiting in requestAnimationFrame
  ctxOpen,            \* ctxOpen[id]: AudioContext id has not been closed
  srcConnected,       \* srcConnected[id]: source id has not been disconnected
  pushed,             \* intensities pushed since the history was last emptied
  arrivals,           \* those intensities, in the order they were pushed
  stream,             \* what the microphone delivers: <<>> = any snapshot each frame,
                      \* otherwise the snapshot names the frames read in turn
  \* ---- feature tuple handed to the classification (page.tsx 344-357)
  features,
  \* ---- grokShapeControl inputs and result (page.tsx 147-200, part_001 290-340)
  motionIn,
  control,
  \* ---- POST /api/pulse (route.ts)
  rev,                \* revision: "base" (route.ts, page.tsx) or "sentiment" (part_001)
  rpc,                \* position of the handler
  request,            \* the request being handled
  apiKey,             \* process.env.XAI_API_KEY
  origin,             \* who sent the request: "client" or "page"
  upstream,           \* what the upstream call answered
  upstreamCalls,      \* upstream requests issued for this request
  response,           \* what POST returned
  \* ---- Home: handleSubmit (page.tsx 397-430)
  description,        \* useState('')
  pulseData,          \* useState<PulseData | null>(null)
  isLoading,          \* useState(false)
  fetched,            \* handleSubmit's response: what its fetch resolved with
  hpc,                \* position of handleSubmit
  \* ---- PulseVisualization (page.tsx 24-282, part_001 140-419)
  mounted,            \* the component is rendered
  vizProps,           \* the props of the last render: audioData, phrase and its score
  session,            \* runs of the effect body so far; run s builds scene s
  mountedAt,          \* the run of the effect that the last mount made
  sceneRef,           \* sceneRef.current: the run that built it, 0 = null
  rendererRef,        \* rendererRef.current, likewise
  composerRef,        \* composerRef.current, likewise (part_001 only)
  sceneChildren,      \* sceneChildren[s]: the children of scene s
  disposed,           \* objects whose dispose() has been called
  ribbonsRef,         \* ribbonsRef.current
  dotsRef,            \* dotsRef.current: the run that made the Points, 0 = null
  webRef,             \* webRef.current, likewise
  liquidRef,          \* liquidRef.current, likewise
  dotPosition,        \* one element of the positions array of dotsRef.current
  dotVelocity,        \* the same element of userData.velocities (part_001 only)
  animationFrameIdRef, \* animationFrameIdRef.current
  rafQueue,           \* animate callbacks waiting in requestAnimationFrame
  run,                \* the buffer element this run follows, and how far
  positionsAt,        \* one element of the positions array of a ribbon, the web or the liquid
  materialColor,      \* material.color of the object that element belongs to
  timeRef,            \* timeRef.current
  renders             \* calls of render() by this instance of the component

audioVars == <<isListening, audioData, audioContextRef, sourceRef, analyserRef,
               dataArrayRef, intensityHistory, pendingMic, loops, ctxOpen,
               srcConnected, pushed, arrivals, stream>>
featureVars == <<features>>
motionVars == <<motionIn, control>>
routeVars == <<rev, rpc, request, origin, apiKey, upstream, upstreamCalls, response>>
pageVars == <<description, pulseData, isLoading, fetched, hpc>>
vizVars == <<mounted, vizProps, session, mountedAt, sceneRef, rendererRef, composerRef,
             sceneChildren, disposed, ribbonsRef, dotsRef, webRef, liquidRef,
             dotPosition, dotVelocity, animationFrameIdRef, rafQueue, run,
             positionsAt, materialColor, timeRef, renders>>
vars == <<audioVars, featureVars, motionVars, routeVars, pageVars, vizVars>>

NULL == [t |-> "null"]

-----------------------------------------------------------------------------
(* Numbers *)

F(num, den) == [n |-> num, d |-> den]
FInt(k) == F(k, 1)
FMul(a, b) == F(a.n * b.n, a.d * b.d)
FDiv(a, b) == F(a.n * b.d, a.d * b.n)
FGt(a, b) == a.n * b.d > b.n * a.d
FLt(a, b) == FGt(b, a)
FEq(a, b) == a.n * b.d = b.n * a.d
FGe0(a) == a.d > 0 /\ a.n >= 0

-----------------------------------------------------------------------------
(* Bounds of the model *)

\* analysis frames explored since the history was last emptied
MaxPushed == 11
\* microphone requests granted in one run
MaxContexts == 2
\* microphone requests that may be pending at once
MaxPending == 2
\* analysis frames explored since the history was last emptied, on a periodic stream
LongRun == 32
\* length of the period of a periodic stream
PatternLen == 3
\* runs of the effect of PulseVisualization in one run of the model
MaxSessions == 3
\* runs of animate per run of the effect
MaxFrames == 4
\* runs of animate in a run of the effect that no change of props interrupts
LongFrames == 12
\* Math.random() is drawn from the grid k / RandomDen
RandomDen == 10
\* the feature grids hold the values k / GridDen, k in 0..GridDen
GridDen == 10

-----------------------------------------------------------------------------
(* Audio analyzer *)

\* analyser.fftSize = 256, so frequencyBinCount = 128
FftSize == 256
BinCount == FftSize \div 2
\* the 10 first and the 10 last bins
BandWidth == 10
ByteMax == 255
HistoryCap == 30
MinRhythmLen == 10

SoundTypes == {"sharp", "rhythmic", "chaotic", "sorrowful", "ambient"}

\* array.reduce((sum, val) => sum + val, 0)
RECURSIVE SumRange(_, _, _)
SumRange(s, lo, hi) ==
  IF lo > hi THEN 0
  ELSE IF lo = hi THEN s[lo]
  ELSE LET mid == (lo + hi) \div 2 IN SumRange(s, lo, mid) + SumRange(s, mid + 1, hi)

SumSeq(s) == SumRange(s, 1, Len(s))

\* array.slice(0, k) and array.slice(-k)
SliceFirst(s, k) == SubSeq(s, 1, IF k < Len(s) THEN k ELSE Len(s))
SliceLast(s, k) == SubSeq(s, (IF k < Len(s) THEN Len(s) - k ELSE 0) + 1, Len(s))

\* A frequency snapshot as getByteFrequencyData leaves it: low band, middle, high band
Snapshot(lo, mid, hi) ==
  [i \in 1..BinCount |->
     IF i <= BandWidth THEN lo ELSE IF i > BinCount - BandWidth THEN hi ELSE mid]

\* The snapshots the analysis frames of the capture model draw from
Quiet == Snapshot(0, 0, 0)
Bass == Snapshot(255, 153, 0)
AudioSnapshots == {Quiet, Bass}

\* The snapshots a periodic stream is made of
Soft == Snapshot(0, 77, 0)
Loud == Snapshot(255, 255, 255)
SnapshotNamed == [quiet |-> Quiet, soft |-> Soft, loud |-> Loud]
SnapshotNames == DOMAIN SnapshotNamed
Patterns == [1..PatternLen -> SnapshotNames]

\* What getByteFrequencyData may leave in the data array on the next frame
NextSnapshots ==
  IF stream = <<>> THEN AudioSnapshots
  ELSE {SnapshotNamed[stream[(pushed % Len(stream)) + 1]]}

\* Frames are explored while fewer than this many were pushed
PushLimit == IF stream = <<>> THEN MaxPushed ELSE LongRun

RECURSIVE CountPeaksPlateau(_, _)
CountPeaksPlateau(history, i) ==
  IF i > Len(history) - 1 THEN 0
  ELSE (IF /\ FGt(history[i], history[i - 1])
           /\ ~FLt(history[i], history[i + 1])
           /\ FGt(history[i], F(5, 10))
        THEN 1 ELSE 0) + CountPeaksPlateau(history, i + 1)

\* the loop of detectRhythm from index i on: for (let i = 1; i < length - 1; i++)
RECURSIVE CountPeaks(_, _)
CountPeaks(history, i) ==
  IF i > Len(history) - 1 THEN 0
  ELSE (IF /\ FGt(history[i], history[i - 1])
           /\ FGt(history[i], history[i + 1])
           /\ FGt(history[i], F(5, 10))
        THEN 1 ELSE 0) + CountPeaks(history, i + 1)

detectRhythmNoGuard(history) ==
  FDiv(FInt(CountPeaks(history, 2)), FDiv(FInt(Len(history)), FInt(2)))

detectRhythmPerQuarter(history) ==
  IF Len(history) < MinRhythmLen THEN FInt(0)
  ELSE FDiv(FInt(CountPeaks(history, 2)), FDiv(FInt(Len(history)), FInt(4)))

detectRhythm(history) ==
  IF Len(history) < MinRhythmLen THEN FInt(0)
  ELSE FDiv(FInt(CountPeaks(history, 2)), FDiv(FInt(Len(history)), FInt(2)))

\* The conditions of the classification chain
IsSharp(f) == FGt(f.highFreqEnergy, F(7, 10)) /\ FGt(f.intensity, F(5, 10))
IsRhythmic(f) == FGt(f.rhythmScore, F(6, 10))
IsChaotic(f) ==
  /\ FGt(f.intensity, F(8, 10))
  /\ FGt(f.highFreqEnergy, F(5, 10))
  /\ FGt(f.lowFreqEnergy, F(5, 10))
IsSorrowful(f) == FGt(f.lowFreqEnergy, F(6, 10)) /\ FLt(f.intensity, F(4, 10))

\* The assignments of the chain that execute for f, in order
FiredNoElse(f) ==
  (IF IsSharp(f) THEN <<"sharp">> ELSE <<>>)
  \o (IF IsRhythmic(f) THEN <<"rhythmic">>
      ELSE IF IsChaotic(f) THEN <<"chaotic">>
      ELSE IF IsSorrowful(f) THEN <<"sorrowful">>
      ELSE <<"ambient">>)

FiredSwapped(f) ==
  IF IsSharp(f) THEN <<"sharp">>
  ELSE IF IsChaotic(f) THEN <<"chaotic">>
  ELSE IF IsRhythmic(f) THEN <<"rhythmic">>
  ELSE IF IsSorrowful(f) THEN <<"sorrowful">>
  ELSE <<"ambient">>

Fired(f) ==
  IF IsSharp(f) THEN <<"sharp">>
  ELSE IF IsRhythmic(f) THEN <<"rhythmic">>
  ELSE IF IsChaotic(f) THEN <<"chaotic">>
  ELSE IF IsSorrowful(f) THEN <<"sorrowful">>
  ELSE <<"ambient">>

\* let soundType; ... : the value it holds after the chain
soundTypeOf(f) ==
  LET a == Fired(f) IN IF a = <<>> THEN "undefined" ELSE a[Len(a)]

Publish(f) ==
  [t |-> "audio", intensity |-> f.intensity, soundType |-> soundTypeOf(f),
   highFreqEnergy |-> f.highFreqEnergy, lowFreqEnergy |-> f.lowFreqEnergy,
   rhythmScore |-> f.rhythmScore]

\* The features analyzeAudio computes from a snapshot and the history it has pushed to
Intensity(data) == FDiv(FDiv(FInt(SumSeq(data)), FInt(Len(data))), FInt(ByteMax))
LowFreqEnergy(data) ==
  FDiv(FInt(SumSeq(SliceFirst(data, BandWidth))), FInt(BandWidth * ByteMax))
HighFreqEnergy(data) ==
  FDiv(FInt(SumSeq(SliceLast(data, BandWidth))), FInt(BandWidth * ByteMax))

PushHistoryDropNewest(history, x) ==
  LET h == Append(history, x) IN
  IF Len(h) > HistoryCap THEN SubSeq(h, 1, Len(h) - 1) ELSE h

\* intensityHistoryRef.current.push(intensity); if (length > 30) shift()
PushHistory(history, x) ==
  LET h == Append(history, x) IN IF Len(h) > HistoryCap THEN Tail(h) ELSE h

\* intensity, lowFreqEnergy and highFreqEnergy of each snapshot the frames draw from
SnapshotFeatures ==
  [data \in AudioSnapshots \cup {SnapshotNamed[k] : k \in SnapshotNames} |->
     [intensity |-> Intensity(data),
      lowFreqEnergy |-> LowFreqEnergy(data),
      highFreqEnergy |-> HighFreqEnergy(data)]]

\* One run of analyzeAudio with the analyser and the data array present
AnalyzeAudio(data) ==
  LET f == SnapshotFeatures[data]
      h == PushHistory(intensityHistory, f.intensity) IN
  /\ intensityHistory' = h
  /\ pushed' = pushed + 1
  /\ arrivals' = Append(arrivals, f.intensity)
  /\ audioData' = Publish([intensity |-> f.intensity,
                           lowFreqEnergy |-> f.lowFreqEnergy,
                           highFreqEnergy |-> f.highFreqEnergy,
                           rhythmScore |-> detectRhythm(h)])

\* The button's onClick while isListening is false: startListening up to its await
StartClick ==
  /\ ~isListening
  /\ pendingMic < MaxPending
  /\ pendingMic' = pendingMic + 1
  /\ UNCHANGED <<isListening, audioData, audioContextRef, sourceRef, analyserRef,
                 dataArrayRef, intensityHistory, loops, ctxOpen, srcConnected, pushed,
                 arrivals, stream>>
  /\ UNCHANGED <<featureVars, vizVars, motionVars, routeVars, pageVars>>

\* getUserMedia resolves: the rest of the try block, with the first analyzeAudio()
MicResolve ==
  /\ pendingMic > 0
  /\ Len(ctxOpen) < MaxContexts
  /\ pushed < PushLimit
  /\ LET id == Len(ctxOpen) + 1 IN
     /\ ctxOpen' = Append(ctxOpen, TRUE)
     /\ srcConnected' = Append(srcConnected, TRUE)
     /\ audioContextRef' = id
     /\ sourceRef' = id
     /\ analyserRef' = id
     /\ dataArrayRef' = id
  /\ pendingMic' = pendingMic - 1
  /\ isListening' = TRUE
  /\ \E data \in NextSnapshots : AnalyzeAudio(data)
  /\ loops' = loops + 1
  /\ UNCHANGED stream
  /\ UNCHANGED <<featureVars, vizVars, motionVars, routeVars, pageVars>>

\* getUserMedia rejects: the catch block
MicReject ==
  /\ pendingMic > 0
  /\ pendingMic' = pendingMic - 1
  /\ isListening' = FALSE
  /\ UNCHANGED <<audioData, audioContextRef, sourceRef, analyserRef, dataArrayRef,
                 intensityHistory, loops, ctxOpen, srcConnected, pushed, arrivals,
                 stream>>
  /\ UNCHANGED <<featureVars, vizVars, motionVars, routeVars, pageVars>>

stopListeningKeepsAnalyser ==
  /\ isListening
  /\ ctxOpen' = IF audioContextRef # 0
                THEN [ctxOpen EXCEPT ![audioContextRef] = FALSE] ELSE ctxOpen
  /\ audioContextRef' = 0
  /\ srcConnected' = IF sourceRef # 0
                     THEN [srcConnected EXCEPT ![sourceRef] = FALSE] ELSE srcConnected
  /\ sourceRef' = 0
  /\ intensityHistory' = <<>>
  /\ pushed' = 0
  /\ arrivals' = <<>>
  /\ isListening' = FALSE
  /\ audioData' = NULL
  /\ UNCHANGED <<analyserRef, dataArrayRef, pendingMic, loops, stream>>
  /\ UNCHANGED <<featureVars, vizVars, motionVars, routeVars, pageVars>>

\* The button's onClick while isListening is true
stopListening ==
  /\ isListening
  /\ ctxOpen' = IF audioContextRef # 0
                THEN [ctxOpen EXCEPT ![audioContextRef] = FALSE] ELSE ctxOpen
  /\ audioContextRef' = 0
  /\ srcConnected' = IF sourceRef # 0
                     THEN [srcConnected EXCEPT ![sourceRef] = FALSE] ELSE srcConnected
  /\ sourceRef' = 0
  /\ analyserRef' = 0
  /\ dataArrayRef' = 0
  /\ intensityHistory' = <<>>
  /\ pushed' = 0
  /\ arrivals' = <<>>
  /\ isListening' = FALSE
  /\ audioData' = NULL
  /\ UNCHANGED <<pendingMic, loops, stream>>
  /\ UNCHANGED <<featureVars, vizVars, motionVars, routeVars, pageVars>>

\* A scheduled analyzeAudio callback runs
AnalyzeFrame ==
  /\ loops > 0
  /\ IF analyserRef # 0 /\ dataArrayRef # 0
     THEN /\ pushed < PushLimit
          /\ \E data \in NextSnapshots : AnalyzeAudio(data)
          /\ UNCHANGED loops
     ELSE /\ loops' = loops - 1
          /\ UNCHANGED <<intensityHistory, pushed, arrivals, audioData>>
  /\ UNCHANGED <<isListening, audioContextRef, sourceRef, analyserRef, dataArrayRef,
                 pendingMic, ctxOpen, srcConnected, stream>>
  /\ UNCHANGED <<featureVars, vizVars, motionVars, routeVars, pageVars>>

AudioInit ==
  /\ isListening = FALSE
  /\ audioData = NULL
  /\ audioContextRef = 0
  /\ sourceRef = 0
  /\ analyserRef = 0
  /\ dataArrayRef = 0
  /\ intensityHistory = <<>>
  /\ pendingMic = 0
  /\ loops = 0
  /\ ctxOpen = <<>>
  /\ srcConnected = <<>>
  /\ pushed = 0
  /\ arrivals = <<>>

\* The capture is off and the microphone is left unconstrained
AudioIdle == AudioInit /\ stream = <<>>

AudioNext ==
  \/ StartClick
  \/ MicResolve
  \/ MicReject
  \/ stopListening
  \/ AnalyzeFrame

-----------------------------------------------------------------------------
(* The classification of analyzeAudio applied to arbitrary feature tuples *)

Grid == {F(k, GridDen) : k \in 0..GridDen}

FeatureTuples ==
  [intensity : Grid, lowFreqEnergy : Grid, highFreqEnergy : Grid, rhythmScore : Grid]

FeatureIdle == features = NULL

\* The chain and setAudioData of analyzeAudio on the tuple drawn
ClassifyFeatures ==
  /\ features # NULL
  /\ audioData = NULL
  /\ audioData' = Publish(features)
  /\ UNCHANGED <<isListening, audioContextRef, sourceRef, analyserRef, dataArrayRef,
                 intensityHistory, pendingMic, loops, ctxOpen, srcConnected, pushed,
                 arrivals, stream>>
  /\ UNCHANGED <<featureVars, vizVars, motionVars, routeVars, pageVars>>

-----------------------------------------------------------------------------
(* JavaScript strings and values *)

Whitespace == {" ", "\t", "\n"}
UpperCase == <<"A", "B", "C", "D", "E", "F", "G", "H", "I", "J", "K", "L", "M",
               "N", "O", "P", "Q", "R", "S", "T", "U", "V", "W", "X", "Y", "Z">>
LowerCase == <<"a", "b", "c", "d", "e", "f", "g", "h", "i", "j", "k", "l", "m",
               "n", "o", "p", "q", "r", "s", "t", "u", "v", "w", "x", "y", "z">>

LowerChar(c) ==
  IF \E k \in 1..Len(UpperCase) : UpperCase[k] = c
  THEN LowerCase[CHOOSE k \in 1..Len(UpperCase) : UpperCase[k] = c]
  ELSE c

\* String.prototype.toLowerCase
toLowerCase(s) == [k \in 1..Len(s) |-> LowerChar(s[k])]

\* String.prototype.includes
includes(s, sub) ==
  \E k \in 1..(Len(s) - Len(sub) + 1) : SubSeq(s, k, k + Len(sub) - 1) = sub

\* String.prototype.trim
RECURSIVE trimStart(_)
trimStart(s) ==
  IF s # <<>> /\ Head(s) \in Whitespace THEN trimStart(Tail(s)) ELSE s

RECURSIVE trimEnd(_)
trimEnd(s) ==
  IF s # <<>> /\ s[Len(s)] \in Whitespace
  THEN trimEnd(SubSeq(s, 1, Len(s) - 1)) ELSE s

trim(s) == trimEnd(trimStart(s))

\* A JavaScript value: its type tag, its characters when a string, its number otherwise
JsUndefined == [t |-> "undefined", s |-> <<>>, n |-> 0]
JsNull == [t |-> "null", s |-> <<>>, n |-> 0]
JsString(chars) == [t |-> "string", s |-> chars, n |-> 0]
JsNumber(k) == [t |-> "number", s |-> <<>>, n |-> k]
JsBoolean(b) == [t |-> "boolean", s |-> <<>>, n |-> IF b THEN 1 ELSE 0]
JsObject == [t |-> "object", s |-> <<>>, n |-> 0]

\* ToBoolean
Truthy(v) ==
  CASE v.t = "undefined" -> FALSE
    [] v.t = "null" -> FALSE
    [] v.t = "string" -> v.s # <<>>
    [] v.t = "number" -> v.n # 0
    [] v.t = "boolean" -> v.n = 1
    [] OTHER -> TRUE

typeof(v) == IF v.t = "null" THEN "object" ELSE v.t

-----------------------------------------------------------------------------
(* Mood-to-motion mapper *)

KwEthereal == <<"e", "t", "h", "e", "r", "e", "a", "l">>
KwSpirit == <<"s", "p", "i", "r", "i", "t">>
KwDark == <<"d", "a", "r", "k">>
KwShadow == <<"s", "h", "a", "d", "o", "w">>
KwEcho == <<"e", "c", "h", "o">>
KwResonance == <<"r", "e", "s", "o", "n", "a", "n", "c", "e">>

\* grokShapeControl of page.tsx: a switch over soundType, closing over the
\* intensity and rhythmScore of the frame's audioData
grokShapeControlBase(soundType, intensity, rhythmScore) ==
  CASE soundType = "ambient" ->
         [ribbonSpeed |-> FMul(FInt(2), intensity),
          dotSwarm |-> FMul(F(1, 10), intensity),
          webPulse |-> FMul(F(5, 10), intensity),
          liquidFlow |-> FMul(F(2, 10), intensity),
          baseColor |-> "0x0000ff"]
    [] soundType = "rhythmic" ->
         [ribbonSpeed |-> FMul(FInt(1), intensity),
          dotSwarm |-> FMul(F(3, 10), rhythmScore),
          webPulse |-> FMul(FInt(1), rhythmScore),
          liquidFlow |-> FMul(F(1, 10), intensity),
          baseColor |-> "0x00ff00"]
    [] soundType = "sharp" ->
         [ribbonSpeed |-> FMul(FInt(3), intensity),
          dotSwarm |-> FMul(F(5, 10), intensity),
          webPulse |-> FMul(FInt(2), intensity),
          liquidFlow |-> FMul(F(5, 100), intensity),
          baseColor |-> "0xff0000"]
    [] soundType = "chaotic" ->
         [ribbonSpeed |-> FMul(FInt(4), intensity),
          dotSwarm |-> FMul(FInt(1), intensity),
          webPulse |-> FMul(FInt(3), intensity),
          liquidFlow |-> FMul(F(3, 10), intensity),
          baseColor |-> "0xff00ff"]
    [] soundType = "sorrowful" ->
         [ribbonSpeed |-> FMul(F(5, 10), intensity),
          dotSwarm |-> FMul(F(5, 100), intensity),
          webPulse |-> FMul(F(2, 10), intensity),
          liquidFlow |-> FMul(F(1, 10), intensity),
          baseColor |-> "0x000088"]
    [] OTHER ->
         [ribbonSpeed |-> FInt(1),
          dotSwarm |-> F(1, 10),
          webPulse |-> F(5, 10),
          liquidFlow |-> F(1, 10),
          baseColor |-> "0x00ff00"]

\* let control = {...}: the record the phrase-aware grokShapeControl starts from
InitialControlSigned(intensity) ==
  [ribbonSpeed |-> FMul(FInt(1), intensity),
   dotSwarm |-> FMul(F(1, 10), intensity),
   webPulse |-> FMul(F(5, 10), intensity),
   liquidFlow |-> FMul(F(-1, 10), intensity),
   baseColor |-> "0x00ff00",
   glowIntensity |-> FInt(1)]

InitialControl(intensity) ==
  [ribbonSpeed |-> FMul(FInt(1), intensity),
   dotSwarm |-> FMul(F(1, 10), intensity),
   webPulse |-> FMul(F(5, 10), intensity),
   liquidFlow |-> FMul(F(1, 10), intensity),
   baseColor |-> "0x00ff00",
   glowIntensity |-> FInt(1)]

\* switch (soundType) { case ...: control = { ...control, ... } }
MoodControl(soundType, intensity, rhythmScore) ==
  LET c == InitialControl(intensity) IN
  CASE soundType = "ambient" ->
         [c EXCEPT !.ribbonSpeed = FMul(FInt(2), intensity),
                   !.liquidFlow = FMul(F(2, 10), intensity),
                   !.baseColor = "0x0000ff"]
    [] soundType = "rhythmic" ->
         [c EXCEPT !.dotSwarm = FMul(F(3, 10), rhythmScore),
                   !.webPulse = FMul(FInt(1), rhythmScore),
                   !.baseColor = "0x00ff00"]
    [] soundType = "sharp" ->
         [c EXCEPT !.ribbonSpeed = FMul(FInt(3), intensity),
                   !.dotSwarm = FMul(F(5, 10), intensity),
                   !.webPulse = FMul(FInt(2), intensity),
                   !.baseColor = "0xff0000"]
    [] soundType = "chaotic" ->
         [c EXCEPT !.ribbonSpeed = FMul(FInt(4), intensity),
                   !.dotSwarm = FMul(FInt(1), intensity),
                   !.webPulse = FMul(FInt(3), intensity),
                   !.liquidFlow = FMul(F(3, 10), intensity),
                   !.baseColor = "0xff00ff"]
    [] soundType = "sorrowful" ->
         [c EXCEPT !.ribbonSpeed = FMul(F(5, 10), intensity),
                   !.dotSwarm = FMul(F(5, 100), intensity),
                   !.webPulse = FMul(F(2, 10), intensity),
                   !.baseColor = "0x000088"]
    [] OTHER -> c

\* if (sentimentAnalysis.score > 0) ... else if (< 0) ...; score is what the
\* sentiment library answers for the phrase
SentimentColor(c, score) ==
  IF score > 0 THEN [c EXCEPT !.baseColor = "0xffff00"]
  ELSE IF score < 0 THEN [c EXCEPT !.baseColor = "0x000088"]
  ELSE c

KeywordAdjustEvery(c, lowerPhrase) ==
  LET c1 == IF includes(lowerPhrase, KwEthereal) \/ includes(lowerPhrase, KwSpirit)
            THEN [c EXCEPT !.ribbonSpeed = FMul(c.ribbonSpeed, F(15, 10)),
                           !.glowIntensity = FInt(2),
                           !.baseColor = "0x88ccff"]
            ELSE c
      c2 == IF includes(lowerPhrase, KwDark) \/ includes(lowerPhrase, KwShadow)
            THEN [c1 EXCEPT !.webPulse = FMul(c1.webPulse, FInt(2)),
                            !.baseColor = "0x440044"]
            ELSE c1 IN
  IF includes(lowerPhrase, KwEcho) \/ includes(lowerPhrase, KwResonance)
  THEN [c2 EXCEPT !.liquidFlow = FMul(c2.liquidFlow, F(15, 10)),
                  !.baseColor = "0x00aaff"]
  ELSE c2

\* the keyword chain over lowerPhrase
KeywordAdjust(c, lowerPhrase) ==
  IF includes(lowerPhrase, KwEthereal) \/ includes(lowerPhrase, KwSpirit)
  THEN [c EXCEPT !.ribbonSpeed = FMul(c.ribbonSpeed, F(15, 10)),
                 !.glowIntensity = FInt(2),
                 !.baseColor = "0x88ccff"]
  ELSE IF includes(lowerPhrase, KwDark) \/ includes(lowerPhrase, KwShadow)
  THEN [c EXCEPT !.webPulse = FMul(c.webPulse, FInt(2)),
                 !.baseColor = "0x440044"]
  ELSE IF includes(lowerPhrase, KwEcho) \/ includes(lowerPhrase, KwResonance)
  THEN [c EXCEPT !.liquidFlow = FMul(c.liquidFlow, F(15, 10)),
                 !.baseColor = "0x00aaff"]
  ELSE c

\* grokShapeControl of the phrase-aware visualization; phrase is a JavaScript
\* value (a string, or undefined when the prop is not given)
grokShapeControl(soundType, intensity, rhythmScore, phrase, score) ==
  LET c == MoodControl(soundType, intensity, rhythmScore) IN
  IF Truthy(phrase)
  THEN KeywordAdjust(SentimentColor(c, score), toLowerCase(phrase.s))
  ELSE c

\* The phrases the mapper is tried on
Phrases ==
  {JsUndefined, JsString(<<>>), JsString(<<"c", "a", "l", "m">>), JsString(<<"E", "t", "h", "e", "r", "e", "a", "l">>),
   JsString(<<"d", "a", "r", "k", " ", "s", "p", "i", "r", "i", "t">>), JsString(<<"s", "h", "a", "d", "o", "w", " ", "e", "c", "h", "o">>), JsString(<<"r", "e", "s", "o", "n", "a", "n", "c", "e">>),
   JsString(<<"D", "A", "R", "K">>)}

SentimentScores == {-1, 0, 1}

MotionInputs ==
  [soundType : SoundTypes \cup {"other"}, intensity : Grid, rhythmScore : Grid,
   phrase : Phrases, score : SentimentScores]

MotionIdle == motionIn = NULL /\ control = NULL

\* const control = grokShapeControl(soundType) in animate of page.tsx
MapBase ==
  /\ motionIn # NULL
  /\ control = NULL
  /\ control' = [t |-> "base",
                 v |-> grokShapeControlBase(motionIn.soundType, motionIn.intensity,
                                            motionIn.rhythmScore)]
  /\ UNCHANGED <<motionIn, audioVars, featureVars, vizVars, routeVars, pageVars>>

\* const control = grokShapeControl(soundType, phrase) in animate of the
\* phrase-aware visualization
MapPhrase ==
  /\ motionIn # NULL
  /\ control = NULL
  /\ control' = [t |-> "phrase",
                 v |-> grokShapeControl(motionIn.soundType, motionIn.intensity,
                                        motionIn.rhythmScore, motionIn.phrase,
                                        motionIn.score)]
  /\ UNCHANGED <<motionIn, audioVars, featureVars, vizVars, routeVars, pageVars>>

-----------------------------------------------------------------------------
(* String literals of the route and of the page *)

\* 'Invalid input provided'
MsgInvalidInput ==
  <<"I", "n", "v", "a", "l", "i", "d", " ", "i", "n", "p", "u", "t", " ",
    "p", "r", "o", "v", "i", "d", "e", "d">>

\* 'Description must be a non-empty string'
MsgDescriptionRequired ==
  <<"D", "e", "s", "c", "r", "i", "p", "t", "i", "o", "n", " ", "m", "u",
    "s", "t", " ", "b", "e", " ", "a", " ", "n", "o", "n", "-", "e", "m",
    "p", "t", "y", " ", "s", "t", "r", "i", "n", "g">>

\* 'Fallback: Echoes of '
FallbackPrefix ==
  <<"F", "a", "l", "l", "b", "a", "c", "k", ":", " ", "E", "c", "h", "o",
    "e", "s", " ", "o", "f", " ">>

\* 'XAI_API_KEY is not set'
MsgKeyNotSet ==
  <<"X", "A", "I", "_", "A", "P", "I", "_", "K", "E", "Y", " ", "i", "s",
    " ", "n", "o", "t", " ", "s", "e", "t">>

\* 'xAI API request failed: '
MsgRequestFailedPrefix ==
  <<"x", "A", "I", " ", "A", "P", "I", " ", "r", "e", "q", "u", "e", "s",
    "t", " ", "f", "a", "i", "l", "e", "d", ":", " ">>

\* 'Invalid response format from xAI API'
MsgInvalidFormat ==
  <<"I", "n", "v", "a", "l", "i", "d", " ", "r", "e", "s", "p", "o", "n",
    "s", "e", " ", "f", "o", "r", "m", "a", "t", " ", "f", "r", "o", "m",
    " ", "x", "A", "I", " ", "A", "P", "I">>

\* 'No stack trace available'
MsgNoStack ==
  <<"N", "o", " ", "s", "t", "a", "c", "k", " ", "t", "r", "a", "c", "e",
    " ", "a", "v", "a", "i", "l", "a", "b", "l", "e">>

\* 'Please enter a description'
MsgEnterDescription ==
  <<"P", "l", "e", "a", "s", "e", " ", "e", "n", "t", "e", "r", " ", "a",
    " ", "d", "e", "s", "c", "r", "i", "p", "t", "i", "o", "n">>

\* 'Failed to fetch pulse data'
MsgFetchFailed ==
  <<"F", "a", "i", "l", "e", "d", " ", "t", "o", " ", "f", "e", "t", "c",
    "h", " ", "p", "u", "l", "s", "e", " ", "d", "a", "t", "a">>

\* 'Error generating pulse'
MsgErrorGenerating ==
  <<"E", "r", "r", "o", "r", " ", "g", "e", "n", "e", "r", "a", "t", "i",
    "n", "g", " ", "p", "u", "l", "s", "e">>

\* 'Error: '
ErrorLabel ==
  <<"E", "r", "r", "o", "r", ":", " ">>

\* message of the TypeError a failed fetch rejects with
MsgEngineFetch ==
  <<"f", "e", "t", "c", "h", " ", "f", "a", "i", "l", "e", "d">>

\* message of the SyntaxError of a body that is not JSON
MsgEngineJson ==
  <<"U", "n", "e", "x", "p", "e", "c", "t", "e", "d", " ", "t", "o", "k",
    "e", "n">>

\* message of the TypeError of a property read on null or of a call of a non-function
MsgEngineType ==
  <<"T", "y", "p", "e", "E", "r", "r", "o", "r">>

\* error.stack as the engine fills it
EngineStack ==
  <<"E", "r", "r", "o", "r", " ", "a", "t", " ", "P", "O", "S", "T">>

\* `${response.status} ${response.statusText}` of a refused upstream call
UpstreamStatus ==
  <<"4", "0", "1", " ", "U", "n", "a", "u", "t", "h", "o", "r", "i", "z",
    "e", "d">>

\* await response.text() of a refused upstream call
UpstreamErrorText ==
  <<"d", "e", "n", "i", "e", "d">>

\* ' - '
Dash ==
  <<" ", "-", " ">>

\* a credential
KeyValue ==
  <<"k">>

Fog ==
  <<"f", "o", "g">>

FogPadded ==
  <<" ", "f", "o", "g">>

Blank ==
  <<" ">>

Dawn ==
  <<"W", "h", "i", "s", "p", "e", "r", "s", " ", "o", "f", " ", "d", "a",
    "w", "n">>

DawnPadded ==
  <<" ", "D", "a", "w", "n", "\n">>

BlankContent ==
  <<" ", " ">>

DarkContent ==
  <<"D", "a", "r", "k">>

-----------------------------------------------------------------------------
(* POST /api/pulse *)

Revisions == {"base", "sentiment"}

\* process.env.XAI_API_KEY: unset, set to the empty string, set
ApiKeys == {JsUndefined, JsString(<<>>), JsString(KeyValue)}

\* The request bodies: not JSON, the JSON value null, a JSON scalar or array, and
\* JSON objects by the value of their description property (undefined: absent)
ClientDescriptions ==
  {JsUndefined, JsNull, JsString(<<>>), JsNumber(0), JsNumber(5), JsBoolean(TRUE),
   JsObject, JsString(Blank), JsString(Fog)}

Requests ==
  {[t |-> "request", json |-> "invalid", description |-> JsUndefined],
   [t |-> "request", json |-> "null", description |-> JsUndefined],
   [t |-> "request", json |-> "scalar", description |-> JsUndefined]}
  \cup {[t |-> "request", json |-> "object", description |-> v] :
          v \in ClientDescriptions}

\* What the upstream call can answer.  kind: the fetch rejects, answers not OK,
\* answers OK with a body that is not JSON, or answers OK with JSON data; data: the
\* shape of that JSON down to choices[0].message; content: choices[0].message.content;
\* stack: the stack of an error the engine raises; score: what the sentiment
\* library answers for the phrase
Replies ==
  [kind : {"reject", "notOk", "badJson"}, data : {"none"}, content : {JsUndefined},
   stack : {JsUndefined, JsString(EngineStack)}, score : {0}]
  \cup
  [kind : {"ok"}, data : {"null", "noChoices", "emptyChoices", "noMessage"},
   content : {JsUndefined}, stack : {JsString(EngineStack)}, score : {0}]
  \cup
  [kind : {"ok"}, data : {"message"},
   content : {JsUndefined, JsNull, JsString(<<>>), JsNumber(7)},
   stack : {JsString(EngineStack)}, score : {0}]
  \cup
  [kind : {"ok"}, data : {"message"},
   content : {JsString(BlankContent), JsString(Dawn), JsString(DawnPadded),
              JsString(DarkContent)},
   stack : {JsString(EngineStack)}, score : SentimentScores]

HalfRate == F(5, 10)

\* NextResponse.json(body, { status })
Response(status, phrase, color, pulseRate, error, errorDetails) ==
  [t |-> "response", status |-> status,
   body |-> [phrase |-> phrase, color |-> color, pulseRate |-> pulseRate,
             error |-> error, errorDetails |-> errorDetails]]

\* const { description } = await request.json(): whether it throws
BodyThrows(req) == req.json \in {"invalid", "null"}

\* if (!description || typeof description !== 'string')
InvalidDescriptionFalsyOnly(d) == ~Truthy(d)

InvalidDescription(d) == ~Truthy(d) \/ typeof(d) # "string"

ValidationResponse ==
  Response(400, MsgInvalidInput, "#ff0000", HalfRate,
           JsString(MsgDescriptionRequired), JsUndefined)

\* the response of the branch if (!apiKey)
MissingKeyResponseOk(d) ==
  Response(200, FallbackPrefix \o d.s, "#ff0000", HalfRate,
           JsString(MsgKeyNotSet), JsUndefined)

MissingKeyResponse(d) ==
  Response(500, FallbackPrefix \o d.s, "#ff0000", HalfRate,
           JsString(MsgKeyNotSet), JsUndefined)

\* the response of the catch block; e is the error caught
FallbackResponseOk(d, e) ==
  Response(200, FallbackPrefix \o d.s, "#ff0000", HalfRate, JsString(e.message),
           IF Truthy(e.stack) THEN e.stack ELSE JsString(MsgNoStack))

FallbackResponse(d, e) ==
  Response(500, FallbackPrefix \o d.s, "#ff0000", HalfRate, JsString(e.message),
           IF Truthy(e.stack) THEN e.stack ELSE JsString(MsgNoStack))

\* if (!data.choices || !data.choices[0] || !data.choices[0].message ||
\*     !data.choices[0].message.content)
InvalidReply(u) == u.data # "message" \/ ~Truthy(u.content)

\* const phrase = data.choices[0].message.content.trim()
SuccessPhraseRaw(content) == content.s

SuccessPhrase(content) == trim(content.s)

\* color and pulseRate of the success response, by revision
SuccessColor(phrase, score) ==
  IF rev = "base" THEN "#4a90e2"
  ELSE IF score > 0 THEN "#ffff00"
  ELSE IF score < 0 THEN "#000088"
  ELSE IF includes(toLowerCase(phrase), KwDark) \/ includes(toLowerCase(phrase), KwShadow)
  THEN "#440044"
  ELSE IF includes(toLowerCase(phrase), KwEthereal)
          \/ includes(toLowerCase(phrase), KwSpirit)
  THEN "#88ccff"
  ELSE "#4a90e2"

SuccessRate(phrase, score) ==
  IF rev = "base" THEN HalfRate
  ELSE IF score > 0 THEN F(8, 10)
  ELSE IF score < 0 THEN F(3, 10)
  ELSE IF includes(toLowerCase(phrase), KwDark) \/ includes(toLowerCase(phrase), KwShadow)
  THEN F(4, 10)
  ELSE IF includes(toLowerCase(phrase), KwEthereal)
          \/ includes(toLowerCase(phrase), KwSpirit)
  THEN F(7, 10)
  ELSE HalfRate

\* The try block from the settling of the fetch to the return, and the catch block
AfterFetch(d, u) ==
  CASE u.kind = "reject" ->
         FallbackResponse(d, [message |-> MsgEngineFetch, stack |-> u.stack])
    [] u.kind = "notOk" ->
         FallbackResponse(d,
           [message |-> MsgRequestFailedPrefix \o UpstreamStatus \o Dash
                          \o UpstreamErrorText,
            stack |-> JsString(EngineStack)])
    [] u.kind = "badJson" ->
         FallbackResponse(d, [message |-> MsgEngineJson, stack |-> u.stack])
    [] u.kind = "ok" /\ u.data = "null" ->
         FallbackResponse(d, [message |-> MsgEngineType, stack |-> u.stack])
    [] u.kind = "ok" /\ u.data # "null" /\ InvalidReply(u) ->
         FallbackResponse(d,
           [message |-> MsgInvalidFormat, stack |-> JsString(EngineStack)])
    [] u.kind = "ok" /\ u.data # "null" /\ ~InvalidReply(u)
         /\ typeof(u.content) # "string" ->
         FallbackResponse(d, [message |-> MsgEngineType, stack |-> u.stack])
    [] OTHER ->
         LET phrase == SuccessPhrase(u.content) IN
         Response(200, phrase, SuccessColor(phrase, u.score),
                  SuccessRate(phrase, u.score), JsUndefined, JsUndefined)

\* A client other than the page posts a request
ClientRequest ==
  /\ rpc = "idle"
  /\ \E req \in Requests : request' = req
  /\ origin' = "client"
  /\ rpc' = "body"
  /\ upstreamCalls' = 0
  /\ upstream' = NULL
  /\ response' = NULL
  /\ UNCHANGED <<rev, apiKey>>
  /\ UNCHANGED <<audioVars, featureVars, vizVars, motionVars, pageVars>>

POST_ValidateKeyFirst ==
  /\ rpc = "body"
  /\ IF BodyThrows(request)
     THEN rpc' = "thrown" /\ UNCHANGED <<response, upstreamCalls>>
     ELSE IF ~Truthy(apiKey)
     THEN /\ rpc' = "done"
          /\ response' = MissingKeyResponse(request.description)
          /\ UNCHANGED upstreamCalls
     ELSE IF InvalidDescription(request.description)
     THEN /\ rpc' = "done"
          /\ response' = ValidationResponse
          /\ UNCHANGED upstreamCalls
     ELSE /\ rpc' = "fetching"
          /\ upstreamCalls' = upstreamCalls + 1
          /\ UNCHANGED response
  /\ UNCHANGED <<rev, request, origin, apiKey, upstream>>
  /\ UNCHANGED <<audioVars, featureVars, vizVars, motionVars, pageVars>>

\* POST from the settling of request.json() to the fetch or to an early return
POST_Validate ==
  /\ rpc = "body"
  /\ IF BodyThrows(request)
     THEN rpc' = "thrown" /\ UNCHANGED <<response, upstreamCalls>>
     ELSE IF InvalidDescription(request.description)
     THEN /\ rpc' = "done"
          /\ response' = ValidationResponse
          /\ UNCHANGED upstreamCalls
     ELSE IF ~Truthy(apiKey)
     THEN /\ rpc' = "done"
          /\ response' = MissingKeyResponse(request.description)
          /\ UNCHANGED upstreamCalls
     ELSE /\ rpc' = "fetching"
          /\ upstreamCalls' = upstreamCalls + 1
          /\ UNCHANGED response
  /\ UNCHANGED <<rev, request, origin, apiKey, upstream>>
  /\ UNCHANGED <<audioVars, featureVars, vizVars, motionVars, pageVars>>

\* The upstream call settles: the rest of the try block, or the catch block
POST_Fetched ==
  /\ rpc = "fetching"
  /\ \E u \in Replies :
       /\ upstream' = u
       /\ response' = AfterFetch(request.description, u)
  /\ rpc' = "done"
  /\ UNCHANGED <<rev, request, origin, apiKey, upstreamCalls>>
  /\ UNCHANGED <<audioVars, featureVars, vizVars, motionVars, pageVars>>

\* The client takes the answer
ClientReceive ==
  /\ rpc \in {"done", "thrown"}
  /\ origin = "client"
  /\ rpc' = "idle"
  /\ UNCHANGED <<rev, request, origin, apiKey, upstream, upstreamCalls, response>>
  /\ UNCHANGED <<audioVars, featureVars, vizVars, motionVars, pageVars>>

-----------------------------------------------------------------------------
(* Home: handleSubmit *)

\* What the user types into the input
Descriptions == {<<>>, Blank, Fog, FogPadded}

PulseData(phrase, color, pulseRate, error, errorDetails) ==
  [t |-> "pulse", phrase |-> phrase, color |-> color, pulseRate |-> pulseRate,
   error |-> error, errorDetails |-> errorDetails]

\* onChange of the input
SetDescription ==
  /\ hpc # "fetching"
  /\ \E d \in Descriptions : description' = d
  /\ UNCHANGED <<pulseData, isLoading, fetched, hpc>>
  /\ UNCHANGED <<audioVars, featureVars, vizVars, motionVars, routeVars>>

\* handleSubmit up to its await: the button is disabled while isLoading
SubmitClick ==
  /\ ~isLoading
  /\ hpc # "fetching"
  /\ IF trim(description) = <<>>
     THEN /\ pulseData' = PulseData(MsgEnterDescription, "#ff0000", HalfRate,
                                    JsUndefined, JsUndefined)
          /\ hpc' = "done"
          /\ fetched' = NULL
          /\ UNCHANGED <<isLoading, routeVars>>
     ELSE /\ rpc = "idle"
          /\ isLoading' = TRUE
          /\ hpc' = "fetching"
          /\ request' = [t |-> "request", json |-> "object",
                         description |-> JsString(description)]
          /\ origin' = "page"
          /\ rpc' = "body"
          /\ upstreamCalls' = 0
          /\ upstream' = NULL
          /\ response' = NULL
          /\ UNCHANGED <<rev, apiKey, pulseData, fetched>>
  /\ UNCHANGED description
  /\ UNCHANGED <<audioVars, featureVars, vizVars, motionVars>>

\* the catch block of handleSubmit; the sentiment revision adds the error field
CaughtPulseData(message) ==
  LET text == IF message # <<>> THEN message ELSE MsgErrorGenerating IN
  PulseData(text, "#ff0000", HalfRate,
            IF rev = "base" THEN JsUndefined ELSE JsString(message), JsUndefined)

\* What handleSubmit sets from the response its fetch resolved with: a response of
\* the route, or the framework's own answer (not JSON) when POST threw
AfterResponse(res) ==
  IF res.t # "response" THEN CaughtPulseData(MsgEngineJson)
  ELSE IF res.status < 200 \/ res.status > 299
  THEN CaughtPulseData(IF Truthy(res.body.error) THEN res.body.error.s
                       ELSE MsgFetchFailed)
  ELSE PulseData(res.body.phrase, res.body.color, res.body.pulseRate,
                 res.body.error, res.body.errorDetails)

\* The fetch of handleSubmit resolves: the rest of the try block, catch and finally
SubmitResolved ==
  /\ hpc = "fetching"
  /\ origin = "page"
  /\ rpc \in {"done", "thrown"}
  /\ LET res == IF rpc = "done" THEN response ELSE [t |-> "crash"] IN
     /\ fetched' = res
     /\ pulseData' = AfterResponse(res)
  /\ isLoading' = FALSE
  /\ hpc' = "done"
  /\ rpc' = "idle"
  /\ UNCHANGED description
  /\ UNCHANGED <<rev, request, origin, apiKey, upstream, upstreamCalls, response>>
  /\ UNCHANGED <<audioVars, featureVars, vizVars, motionVars>>

SubmitRejectedNoFinally ==
  /\ hpc = "fetching"
  /\ origin = "page"
  /\ rpc \in {"done", "thrown"}
  /\ fetched' = NULL
  /\ pulseData' = CaughtPulseData(MsgEngineFetch)
  /\ hpc' = "done"
  /\ rpc' = "idle"
  /\ UNCHANGED <<description, isLoading>>
  /\ UNCHANGED <<rev, request, origin, apiKey, upstream, upstreamCalls, response>>
  /\ UNCHANGED <<audioVars, featureVars, vizVars, motionVars>>

\* The fetch of handleSubmit rejects (the answer is lost): catch and finally
SubmitRejected ==
  /\ hpc = "fetching"
  /\ origin = "page"
  /\ rpc \in {"done", "thrown"}
  /\ fetched' = NULL
  /\ pulseData' = CaughtPulseData(MsgEngineFetch)
  /\ isLoading' = FALSE
  /\ hpc' = "done"
  /\ rpc' = "idle"
  /\ UNCHANGED description
  /\ UNCHANGED <<rev, request, origin, apiKey, upstream, upstreamCalls, response>>
  /\ UNCHANGED <<audioVars, featureVars, vizVars, motionVars>>

\* What the paragraph under the buttons shows
DisplayedText ==
  IF rev = "sentiment" /\ Truthy(pulseData.error)
  THEN ErrorLabel \o pulseData.error.s
  ELSE pulseData.phrase

-----------------------------------------------------------------------------
(* PulseVisualization: the effect that builds the scene, animate, the cleanup *)

\* const ribbonCount = 5
RibbonCount == 5
\* THREE.MathUtils.clamp(positions[...], -5, 5)
CubeHalf == 5
\* (Math.random() - 0.5) * 10
SpawnSpan == 10

RECURSIVE GCD(_, _)
GCD(a, b) == IF b = 0 THEN a ELSE GCD(b, a % b)
Abs(k) == IF k < 0 THEN 0 - k ELSE k

\* The same number with a positive denominator, in lowest terms
FNorm(a) ==
  LET g == GCD(Abs(a.n), Abs(a.d))
      sgn == IF a.d < 0 THEN 0 - 1 ELSE 1 IN
  F(sgn * (a.n \div g), sgn * (a.d \div g))
FAdd(a, b) == FNorm(F(a.n * b.d + b.n * a.d, a.d * b.d))
FSub(a, b) == FNorm(F(a.n * b.d - b.n * a.d, a.d * b.d))

\* An object of the three.js scene graph made by effect run s
Obj(s, kind, i) == [s |-> s, kind |-> kind, i |-> i]
Ribbons(s) == [i \in 1..RibbonCount |-> Obj(s, "ribbon", i)]

\* scene.add(...) of one effect run, in the order of the calls
SceneObjects(s) ==
  {Obj(s, "ambientLight", 0), Obj(s, "pointLight", 0)}
  \cup {Ribbons(s)[i] : i \in 1..RibbonCount}
  \cup {Obj(s, "dots", 0), Obj(s, "web", 0), Obj(s, "liquid", 0)}

\* child instanceof THREE.Line || THREE.Points || THREE.Mesh (LineSegments is a Line)
IsDisposable(o) == o.kind \in {"ribbon", "dots", "web", "liquid"}

\* Math.random(): the ends and the middle of the grid k / RandomDen of [0, 1)
Randoms == {F(0, 1), F(1, 2), F(RandomDen - 1, RandomDen)}

\* Math.sin(timeRef.current + i) and Math.cos(timeRef.current + i): the ends and
\* the middle of [-1, 1]
Trig == {FInt(0 - 1), FInt(0), FInt(1)}

\* (Math.random() - 0.5) * 10
Spawn(r) == FNorm(FMul(FSub(r, F(1, 2)), FInt(SpawnSpan)))

\* The values createDots may give an element of the positions array
CreatedDots == {Spawn(r) : r \in Randoms}

\* dots.userData.velocities = new Float32Array(particleCount * 3)
ZeroVelocity == FInt(0)

clampLowerOnly(value, min, max) ==
  IF FLt(value, min) THEN min ELSE value

\* THREE.MathUtils.clamp: Math.max(min, Math.min(max, value))
clamp(value, min, max) ==
  LET m == IF FLt(max, value) THEN max ELSE value IN
  IF FGt(min, m) THEN min ELSE m

ClampToCube(x) == clamp(x, FInt(0 - CubeHalf), FInt(CubeHalf))

\* The audioData and phrase props the component is rendered with
VizAudio ==
  {NULL,
   Publish([intensity |-> FInt(0), lowFreqEnergy |-> FInt(0),
            highFreqEnergy |-> FInt(0), rhythmScore |-> FInt(0)]),
   Publish([intensity |-> F(9, 10), lowFreqEnergy |-> F(6, 10),
            highFreqEnergy |-> F(6, 10), rhythmScore |-> FInt(0)])}
VizPhrases ==
  {[phrase |-> JsUndefined, score |-> 0],
   [phrase |-> JsString(<<"c", "a", "l", "m">>), score |-> 1]}
VizInputs ==
  {[audioData |-> a, phrase |-> p.phrase, score |-> p.score] :
     a \in VizAudio, p \in VizPhrases}

\* const control = grokShapeControl(soundType) / grokShapeControl(soundType, phrase)
ControlOf(p) ==
  IF rev = "base"
  THEN grokShapeControlBase(p.audioData.soundType, p.audioData.intensity,
                            p.audioData.rhythmScore)
  ELSE grokShapeControl(p.audioData.soundType, p.audioData.intensity,
                        p.audioData.rhythmScore, p.phrase, p.score)

\* positions[j] += Math.sin(...) * control.dotSwarm (or Math.cos), then the clamp
SwarmStep(pos, trig, dotSwarm) == ClampToCube(FAdd(pos, FMul(trig, dotSwarm)))

\* velocities[j] += (Math.random() - 0.5) * control.dotSwarm
FlockVelocity(vel, r, dotSwarm) == FAdd(vel, FMul(FSub(r, F(1, 2)), dotSwarm))

\* positions[j] += velocities[j], then the clamp
FlockStep(pos, vel) == ClampToCube(FAdd(pos, vel))

\* The dots part of one run of animate with the props p of its closure, seen at one
\* element of the arrays (each element is read and written on its own): the
\* <<position, velocity>> pairs an element at pos with velocity vel may be left with
AnimateDots(p, pos, vel) ==
  IF p.audioData # NULL /\ FGt(p.audioData.intensity, FInt(0))
  THEN LET dotSwarm == ControlOf(p).dotSwarm IN
       IF rev = "base"
       THEN {<<SwarmStep(pos, trig, dotSwarm), vel>> : trig \in Trig}
       ELSE {<<FlockStep(pos, v), v>> :
               v \in {FlockVelocity(vel, r, dotSwarm) : r \in Randoms}}
  ELSE {<<pos, vel>>}

\* The element of a vertex buffer a run follows: animate reads and writes every
\* element of every positions array on its own
ShapeProbes ==
  {"ribbon.x", "ribbon.y", "ribbon.z", "web.x", "web.y", "web.z",
   "liquid.x", "liquid.y", "liquid.z"}
Probes == {"dots"} \cup ShapeProbes

\* The object a followed element belongs to
ProbeKind(probe) ==
  CASE probe \in {"ribbon.x", "ribbon.y", "ribbon.z"} -> "ribbon"
    [] probe \in {"web.x", "web.y", "web.z"} -> "web"
    [] probe \in {"liquid.x", "liquid.y", "liquid.z"} -> "liquid"
    [] OTHER -> "dots"

\* What a run explores: renders with changing props and short runs of the effect,
\* or one run of the effect that goes on under unchanged props
Runs ==
  {[probe |-> q, sessions |-> MaxSessions, frames |-> MaxFrames] : q \in Probes}
  \cup {[probe |-> q, sessions |-> 1, frames |-> LongFrames] : q \in ShapeProbes}

\* The values createRibbons, createWeb and createLiquid may give the element:
\* (j / segments - 0.5) * 10 and Math.sin(j / segments * PI) * 2 for the first, the
\* middle and the last j; Math.cos(angle) * (3 + Math.random() * 2);
\* PlaneGeometry(10, 10, 32, 32): -5 + 10 * k / 32 for the first, the middle and the
\* last k; z = 0 everywhere
CreatedAt(probe) ==
  CASE probe = "ribbon.x" ->
         {FNorm(FMul(FSub(F(j, 20), F(1, 2)), FInt(10))) : j \in {0, 10, 19}}
    [] probe = "ribbon.y" ->
         {FNorm(FMul(t, FInt(2))) : t \in {u \in Trig : FGe0(u)}}
    [] probe \in {"web.x", "web.y"} ->
         {FNorm(FMul(t, FAdd(FInt(3), FMul(r, FInt(2))))) : t \in Trig, r \in Randoms}
    [] probe \in {"liquid.x", "liquid.y"} ->
         {FSub(F(10 * k, 32), FInt(5)) : k \in {0, 16, 32}}
    [] OTHER -> {FInt(0)}

\* new LineBasicMaterial, PointsMaterial, MeshPhongMaterial({ color }); the
\* fragment shader of part_001 paints the liquid blue
CreatedColor(kind) ==
  CASE kind = "ribbon" -> "0x00ff00"
    [] kind = "dots" -> "0xffffff"
    [] kind = "web" -> "0x8888ff"
    [] OTHER -> "0x0000ff"

\* if (audioData && audioData.intensity > 0)
Audible(p) == p.audioData # NULL /\ FGt(p.audioData.intensity, FInt(0))

\* The ribbon, web and liquid parts of one run of animate with the props p of its
\* closure, seen at the followed element x: the values it may be left with.
\* Math.sin, Math.cos and noise(...) are drawn from Trig.
AnimateShape(p, probe, x) ==
  IF ~Audible(p) THEN {x}
  ELSE CASE probe \in {"ribbon.y", "ribbon.z"} ->
              {FNorm(FMul(t, FInt(2))) : t \in Trig}
         [] probe = "web.z" ->
              IF rev = "base"
              THEN {FAdd(x, FMul(t, F(1, 2))) : t \in Trig}
              ELSE {FNorm(FMul(t, F(1, 2))) : t \in Trig}
         [] probe = "liquid.z" ->
              IF rev = "base"
              THEN {FNorm(FMul(t, p.audioData.intensity)) : t \in Trig}
              ELSE {x}
         [] OTHER -> {x}

\* material.color.set(control.baseColor) of the ribbons, the dots, the web and, in
\* page.tsx, the liquid
AnimateColor(p, kind, c) ==
  IF Audible(p) /\ ~(rev = "sentiment" /\ kind = "liquid")
  THEN ControlOf(p).baseColor
  ELSE c

timeRefReset(fresh) == FInt(0)

\* const timeRef = useRef(0): 0 in a new instance of the component, kept from one
\* run of the effect to the next
timeRefAtEffect(fresh) == IF fresh THEN FInt(0) ELSE timeRef

\* timeRef.current += 0.05
Advance(time) == FAdd(time, F(1, 20))

\* rendererRef.current?.render(scene, camera); composerRef.current?.render()
Rendered(count, target) == IF target # 0 THEN count + 1 ELSE count

\* A callback waiting in requestAnimationFrame: animate of effect run s, requested
\* by its n-th run, with the props of its closure
Frame(s, n, p) == [s |-> s, n |-> n, props |-> p]
FrameId(f) == [s |-> f.s, n |-> f.n]

CleanedQueueKept == rafQueue

\* if (animationFrameIdRef.current) cancelAnimationFrame(animationFrameIdRef.current)
CleanedQueue ==
  IF animationFrameIdRef # NULL
  THEN {f \in rafQueue : FrameId(f) # animationFrameIdRef}
  ELSE rafQueue

\* renderer.dispose(), composer.dispose(), and geometry.dispose() and
\* material.dispose() of the Line, Points and Mesh children of the scene
CleanedDisposed ==
  disposed
  \cup (IF rendererRef # 0 THEN {Obj(rendererRef, "renderer", 0)} ELSE {})
  \cup (IF rev = "sentiment" /\ composerRef # 0
        THEN {Obj(composerRef, "composer", 0)} ELSE {})
  \cup (IF sceneRef # 0 THEN {o \in sceneChildren[sceneRef] : IsDisposable(o)} ELSE {})

\* sceneRef.current.clear()
CleanedChildren ==
  IF sceneRef # 0 THEN [sceneChildren EXCEPT ![sceneRef] = {}] ELSE sceneChildren

\* The body of the effect for props p, on the queue, the disposed set, the scenes
\* and the ribbon list it finds: scene, camera, renderer, lights, createRibbons,
\* createDots, createWeb, createLiquid and the first animate()
Setup(p, queue, disp, children, ribbons, time, rendered) ==
  LET s == session + 1 IN
  /\ session' = s
  /\ vizProps' = p
  /\ sceneRef' = s
  /\ rendererRef' = s
  /\ composerRef' = IF rev = "sentiment" THEN s ELSE composerRef
  /\ sceneChildren' = Append(children, SceneObjects(s))
  /\ disposed' = disp
  /\ ribbonsRef' = ribbons \o Ribbons(s)
  /\ dotsRef' = s
  /\ webRef' = s
  /\ liquidRef' = s
  /\ IF run.probe = "dots"
     THEN /\ \E pos \in CreatedDots :
               \E after \in AnimateDots(p, pos, ZeroVelocity) :
                 /\ dotPosition' = after[1]
                 /\ dotVelocity' = after[2]
          /\ positionsAt' = NULL
     ELSE /\ \E x \in CreatedAt(run.probe) :
               positionsAt' \in AnimateShape(p, run.probe, x)
          /\ dotPosition' = NULL
          /\ dotVelocity' = NULL
  /\ materialColor' = AnimateColor(p, ProbeKind(run.probe),
                                   CreatedColor(ProbeKind(run.probe)))
  /\ animationFrameIdRef' = [s |-> s, n |-> 1]
  /\ rafQueue' = queue \cup {Frame(s, 1, p)}
  /\ timeRef' = Advance(time)
  /\ renders' = Rendered(rendered, s)
  /\ UNCHANGED run

\* Home renders <PulseVisualization ... />: a new instance, whose refs hold their
\* initial values, and the first run of its effect
Mount ==
  /\ ~mounted
  /\ session < run.sessions
  /\ mounted' = TRUE
  /\ mountedAt' = session + 1
  /\ \E p \in VizInputs :
       Setup(p, rafQueue, disposed, sceneChildren, <<>>, timeRefAtEffect(TRUE), 0)
  /\ UNCHANGED <<audioVars, featureVars, motionVars, routeVars, pageVars>>

\* A render with a changed audioData (every setAudioData gives a new object, so
\* only null after null leaves the dependency unchanged) or a changed phrase: the
\* cleanup of the previous run of the effect, then its body again
PropsChange ==
  /\ mounted
  /\ session < run.sessions
  /\ \E p \in VizInputs :
       /\ \/ p.phrase = vizProps.phrase /\ ~(p.audioData = NULL /\ vizProps.audioData = NULL)
          \/ p.phrase # vizProps.phrase /\ p.audioData = vizProps.audioData
       /\ Setup(p, CleanedQueue, CleanedDisposed, CleanedChildren, ribbonsRef,
                timeRefAtEffect(FALSE), renders)
  /\ UNCHANGED <<mounted, mountedAt>>
  /\ UNCHANGED <<audioVars, featureVars, motionVars, routeVars, pageVars>>

\* A callback of requestAnimationFrame runs animate
AnimateCallback ==
  /\ \E f \in rafQueue :
       /\ f.n < run.frames
       /\ animationFrameIdRef' = [s |-> f.s, n |-> f.n + 1]
       /\ rafQueue' = (rafQueue \ {f}) \cup {Frame(f.s, f.n + 1, f.props)}
       /\ timeRef' = Advance(timeRef)
       /\ IF run.probe = "dots"
          THEN /\ \E after \in AnimateDots(f.props, dotPosition, dotVelocity) :
                    /\ dotPosition' = after[1]
                    /\ dotVelocity' = after[2]
               /\ UNCHANGED positionsAt
          ELSE /\ positionsAt' \in AnimateShape(f.props, run.probe, positionsAt)
               /\ UNCHANGED <<dotPosition, dotVelocity>>
       /\ materialColor' = AnimateColor(f.props, ProbeKind(run.probe), materialColor)
       /\ renders' = Rendered(renders, IF rev = "base" THEN rendererRef ELSE composerRef)
  /\ UNCHANGED <<mounted, vizProps, session, mountedAt, sceneRef, rendererRef,
                 composerRef, sceneChildren, disposed, ribbonsRef, dotsRef, webRef,
                 liquidRef, run>>
  /\ UNCHANGED <<audioVars, featureVars, motionVars, routeVars, pageVars>>

\* The component is removed: the cleanup of the last run of the effect
Unmount ==
  /\ mounted
  /\ mounted' = FALSE
  /\ rafQueue' = CleanedQueue
  /\ disposed' = CleanedDisposed
  /\ sceneChildren' = CleanedChildren
  /\ UNCHANGED <<vizProps, session, mountedAt, sceneRef, rendererRef, composerRef,
                 ribbonsRef, dotsRef, webRef, liquidRef, dotPosition, dotVelocity,
                 animationFrameIdRef, run, positionsAt, materialColor, timeRef,
                 renders>>
  /\ UNCHANGED <<audioVars, featureVars, motionVars, routeVars, pageVars>>

VizIdle ==
  /\ mounted = FALSE
  /\ vizProps = NULL
  /\ session = 0
  /\ mountedAt = 0
  /\ sceneRef = 0
  /\ rendererRef = 0
  /\ composerRef = 0
  /\ sceneChildren = <<>>
  /\ disposed = {}
  /\ ribbonsRef = <<>>
  /\ dotsRef = 0
  /\ webRef = 0
  /\ liquidRef = 0
  /\ dotPosition = NULL
  /\ dotVelocity = NULL
  /\ animationFrameIdRef = NULL
  /\ rafQueue = {}
  /\ positionsAt = NULL
  /\ materialColor = NULL
  /\ timeRef = FInt(0)
  /\ renders = 0

\* No visualization is rendered in this run
VizOff == VizIdle /\ run = NULL

VizNext ==
  \/ Mount
  \/ PropsChange
  \/ AnimateCallback
  \/ Unmount

-----------------------------------------------------------------------------
(* Specifications *)

RouteIdle ==
  /\ rpc = "idle"
  /\ request = NULL
  /\ origin = "none"
  /\ upstream = NULL
  /\ upstreamCalls = 0
  /\ response = NULL

RouteOff == RouteIdle /\ rev = "base" /\ apiKey = JsUndefined

PageIdle ==
  /\ description = <<>>
  /\ pulseData = NULL
  /\ isLoading = FALSE
  /\ fetched = NULL
  /\ hpc = "idle"

\* The audio capture of Home
InitAudio ==
  /\ AudioInit
  /\ stream \in {<<>>} \cup Patterns
  /\ FeatureIdle /\ MotionIdle /\ RouteOff /\ PageIdle /\ VizOff
SpecAudio == InitAudio /\ [][AudioNext]_vars

\* The classification on every feature tuple of the grid
InitFeatures ==
  /\ AudioIdle
  /\ features \in FeatureTuples
  /\ MotionIdle /\ RouteOff /\ PageIdle /\ VizOff
SpecFeatures == InitFeatures /\ [][ClassifyFeatures]_vars

\* The two mappers on every input of the grid
InitMotion ==
  /\ AudioIdle /\ FeatureIdle
  /\ motionIn \in MotionInputs
  /\ control = NULL
  /\ RouteOff /\ PageIdle /\ VizOff
NextMotion == MapBase \/ MapPhrase
SpecMotion == InitMotion /\ [][NextMotion]_vars

\* The route, posted to by the page and by other clients
InitPulse ==
  /\ AudioIdle /\ FeatureIdle /\ MotionIdle
  /\ RouteIdle
  /\ rev \in Revisions
  /\ apiKey \in ApiKeys
  /\ PageIdle /\ VizOff
NextPulse ==
  \/ ClientRequest
  \/ POST_Validate
  \/ POST_Fetched
  \/ ClientReceive
  \/ SetDescription
  \/ SubmitClick
  \/ SubmitResolved
  \/ SubmitRejected
SpecPulse == InitPulse /\ [][NextPulse]_vars

\* Home after one granted startListening, on a silent stream
AudioListening ==
  LET f == SnapshotFeatures[Quiet] IN
  /\ isListening = TRUE
  /\ audioData = Publish([intensity |-> f.intensity,
                          lowFreqEnergy |-> f.lowFreqEnergy,
                          highFreqEnergy |-> f.highFreqEnergy,
                          rhythmScore |-> detectRhythm(<<f.intensity>>)])
  /\ audioContextRef = 1
  /\ sourceRef = 1
  /\ analyserRef = 1
  /\ dataArrayRef = 1
  /\ intensityHistory = <<f.intensity>>
  /\ pendingMic = 0
  /\ loops = 1
  /\ ctxOpen = <<TRUE>>
  /\ srcConnected = <<TRUE>>
  /\ pushed = 1
  /\ arrivals = <<f.intensity>>
  /\ stream = [i \in 1..PatternLen |-> "quiet"]

\* handleSubmit against the route while the analysis loop runs or not: an awaited
\* promise that settles has its continuation run, so the steps of POST and the
\* continuation of handleSubmit are taken once they can be
InitSubmit ==
  /\ AudioIdle \/ AudioListening
  /\ FeatureIdle /\ MotionIdle
  /\ RouteIdle
  /\ rev \in Revisions
  /\ apiKey \in ApiKeys
  /\ PageIdle /\ VizOff
NextSubmit ==
  \/ SetDescription
  \/ SubmitClick
  \/ POST_Validate
  \/ POST_Fetched
  \/ SubmitResolved
  \/ SubmitRejected
  \/ AnalyzeFrame
  \/ stopListening
SpecSubmit ==
  /\ InitSubmit
  /\ [][NextSubmit]_vars
  /\ WF_vars(POST_Validate)
  /\ WF_vars(POST_Fetched)
  /\ WF_vars(SubmitResolved \/ SubmitRejected)

\* The visualization component, in both revisions, under renders with changing props
InitVisual ==
  /\ AudioIdle /\ FeatureIdle /\ MotionIdle
  /\ RouteIdle
  /\ rev \in Revisions
  /\ apiKey = JsUndefined
  /\ PageIdle
  /\ VizIdle
  /\ run \in Runs
SpecVisual == InitVisual /\ [][VizNext]_vars

-----------------------------------------------------------------------------
(* Properties *)

\* x > k/10 and x < k/10 for a number x, as the specification writes its thresholds
Above(x, tenths) == x.d > 0 /\ x.n * 10 > tenths * x.d
Below(x, tenths) == x.d > 0 /\ x.n * 10 < tenths * x.d

\* C1: detectRhythm returns exactly 0 for every history of fewer than 10 samples,
\* so the analyzer publishes no non-zero rhythmScore before 10 intensities have
\* been pushed since the history was last emptied.
C1_NoRhythmBeforeTenSamples ==
  /\ Len(intensityHistory) < 10 => detectRhythm(intensityHistory) = FInt(0)
  /\ (audioData.t = "audio" /\ pushed < 10) => audioData.rhythmScore = FInt(0)

\* Nine samples with four peaks above 0.5 have been pushed and the score published is 0
C1_Witness ==
  /\ audioData.t = "audio"
  /\ pushed = 9
  /\ CountPeaks(intensityHistory, 2) = 4
  /\ audioData.rhythmScore = FInt(0)

\* C2: the classification assigns exactly one soundType of the five to every
\* feature tuple: exactly one assignment of the chain executes, and the tag
\* published is the one it assigned.
C2_ExactlyOneSoundType ==
  audioData.t = "audio" =>
    /\ Len(Fired(features)) = 1
    /\ audioData.soundType \in SoundTypes
    /\ audioData.soundType = Fired(features)[1]

\* A tuple on which the sharp, the rhythmic and the chaotic condition all hold
\* has been classified, and got the single tag sharp
C2_Witness ==
  /\ audioData.t = "audio"
  /\ IsSharp(features) /\ IsRhythmic(features) /\ IsChaotic(features)
  /\ audioData.soundType = "sharp"

\* The priority chain as the specification words it
RefSharp(a) == Above(a.highFreqEnergy, 7) /\ Above(a.intensity, 5)
RefRhythmic(a) == Above(a.rhythmScore, 6)
RefChaotic(a) ==
  Above(a.intensity, 8) /\ Above(a.highFreqEnergy, 5) /\ Above(a.lowFreqEnergy, 5)
RefSorrowful(a) == Above(a.lowFreqEnergy, 6) /\ Below(a.intensity, 4)
RefSoundType(a) ==
  CASE RefSharp(a) -> "sharp"
    [] ~RefSharp(a) /\ RefRhythmic(a) -> "rhythmic"
    [] ~RefSharp(a) /\ ~RefRhythmic(a) /\ RefChaotic(a) -> "chaotic"
    [] ~RefSharp(a) /\ ~RefRhythmic(a) /\ ~RefChaotic(a) /\ RefSorrowful(a) ->
         "sorrowful"
    [] OTHER -> "ambient"

\* C3: the soundType published equals the reference priority chain; a tuple that is
\* both rhythmic and chaotic (and not sharp) is tagged rhythmic, and one that is
\* both sharp and rhythmic is tagged sharp.
C3_PriorityChain ==
  audioData.t = "audio" =>
    /\ audioData.soundType = RefSoundType(audioData)
    /\ (RefRhythmic(audioData) /\ RefChaotic(audioData) /\ ~RefSharp(audioData))
         => audioData.soundType = "rhythmic"
    /\ (RefSharp(audioData) /\ RefRhythmic(audioData))
         => audioData.soundType = "sharp"

\* A tuple that is rhythmic and chaotic but not sharp has been tagged rhythmic
C3_Witness ==
  /\ audioData.t = "audio"
  /\ RefRhythmic(audioData) /\ RefChaotic(audioData) /\ ~RefSharp(audioData)
  /\ audioData.soundType = "rhythmic"

\* C4: for every soundType (the default branch included) and every non-negative
\* intensity and rhythmScore, every numeric field grokShapeControl returns is
\* non-negative, in the base mapper and in the phrase-aware one after its keyword
\* adjustments.
C4_MotionNonNegative ==
  control.t \in {"base", "phrase"} =>
    /\ FGe0(control.v.ribbonSpeed)
    /\ FGe0(control.v.dotSwarm)
    /\ FGe0(control.v.webPulse)
    /\ FGe0(control.v.liquidFlow)
    /\ control.t = "phrase" => FGe0(control.v.glowIntensity)

\* The phrase-aware mapper took the default branch and the ethereal adjustment:
\* ribbonSpeed is 1.5 x intensity, positive, and the glow is 2
C4_Witness ==
  /\ control.t = "phrase"
  /\ motionIn.soundType = "other"
  /\ motionIn.intensity.n > 0
  /\ control.v.baseColor = "0x88ccff"
  /\ control.v.glowIntensity = FInt(2)
  /\ FEq(control.v.ribbonSpeed, FMul(F(15, 10), motionIn.intensity))

\* s without its leading and trailing whitespace: what is cut is whitespace only,
\* and what is left neither starts nor ends with whitespace
IsTrimOf(p, s) ==
  \E i \in 0..Len(s) :
    /\ i + Len(p) <= Len(s)
    /\ SubSeq(s, i + 1, i + Len(p)) = p
    /\ \A k \in 1..i : s[k] \in Whitespace
    /\ \A k \in (i + Len(p) + 1)..Len(s) : s[k] \in Whitespace
    /\ p # <<>> => (p[1] \notin Whitespace /\ p[Len(p)] \notin Whitespace)

ValidRequest ==
  /\ request.t = "request"
  /\ request.json = "object"
  /\ request.description.t = "string"
  /\ request.description.s # <<>>

KeySet == apiKey.t = "string" /\ apiKey.s # <<>>

\* C5: a non-empty string description, the credential set and an OK upstream reply
\* whose choices[0].message.content is a non-empty string give status 200 and a
\* body {phrase, color, pulseRate} whose phrase is the content trimmed; the content
\* "Whispers of dawn" gives the phrase "Whispers of dawn".
C5_SuccessPhrase ==
  (/\ rpc = "done"
   /\ ValidRequest
   /\ KeySet
   /\ upstream.kind = "ok"
   /\ upstream.data = "message"
   /\ upstream.content.t = "string"
   /\ upstream.content.s # <<>>)
  => /\ response.status = 200
     /\ IsTrimOf(response.body.phrase, upstream.content.s)
     /\ upstream.content.s = Dawn => response.body.phrase = Dawn
     /\ response.body.error = JsUndefined
     /\ response.body.errorDetails = JsUndefined

\* The content " Dawn\n" has been answered with the phrase "Dawn" and status 200
C5_Witness ==
  /\ rpc = "done"
  /\ ValidRequest
  /\ upstreamCalls = 1
  /\ upstream.content = JsString(DawnPadded)
  /\ response.status = 200
  /\ response.body.phrase = <<"D", "a", "w", "n">>

\* C6: a valid description with the credential not set gives status 500, the phrase
\* "Fallback: Echoes of " followed by the description, the color '#ff0000' and an
\* error field, and no upstream request is issued.
C6_MissingCredential ==
  (rpc = "done" /\ ValidRequest /\ ~KeySet)
  => /\ response.status = 500
     /\ response.body.phrase = FallbackPrefix \o request.description.s
     /\ response.body.color = "#ff0000"
     /\ response.body.error.t = "string"
     /\ upstreamCalls = 0

\* The page's request for "fog" has been answered 500 without a credential
C6_Witness ==
  /\ rpc = "done"
  /\ origin = "page"
  /\ request.description = JsString(Fog)
  /\ apiKey = JsUndefined
  /\ response.status = 500
  /\ upstreamCalls = 0

\* C7: a JSON body whose description is missing, empty or not a string gives status
\* 400 with the phrase 'Invalid input provided' and an error message, whether or
\* not the credential is set.
C7_InvalidDescription ==
  (/\ rpc \in {"done", "thrown"}
   /\ request.json \in {"object", "scalar"}
   /\ (request.description.t # "string" \/ request.description.s = <<>>))
  => /\ rpc = "done"
     /\ response.status = 400
     /\ response.body.phrase = MsgInvalidInput
     /\ response.body.error.t = "string"
     /\ response.body.error.s # <<>>
     /\ upstreamCalls = 0

\* A description that is the number 5 has been answered 400 with the credential set
C7_Witness ==
  /\ rpc = "done"
  /\ request.json = "object"
  /\ request.description = JsNumber(5)
  /\ KeySet
  /\ response.status = 400

\* The upstream call failed: the fetch rejected, the status was not OK, or the reply
\* has no choices[0].message.content
UpstreamFailed ==
  \/ upstream.kind \in {"reject", "notOk", "badJson"}
  \/ upstream.data # "message"
  \/ upstream.content.t \in {"undefined", "null"}
  \/ (upstream.content.t = "string" /\ upstream.content.s = <<>>)

\* C8: every upstream failure gives status 500, the phrase "Fallback: Echoes of "
\* followed by the description, the color '#ff0000' and both an error and an
\* errorDetails field; none gives a 200.
C8_UpstreamFailure ==
  (rpc = "done" /\ upstreamCalls > 0 /\ UpstreamFailed)
  => /\ response.status = 500
     /\ response.body.phrase = FallbackPrefix \o request.description.s
     /\ response.body.color = "#ff0000"
     /\ response.body.error.t = "string"
     /\ response.body.errorDetails.t = "string"

\* A rejected fetch whose error has no stack has been answered 500 with the default
\* errorDetails
C8_Witness ==
  /\ rpc = "done"
  /\ upstreamCalls > 0
  /\ upstream.kind = "reject"
  /\ upstream.stack = JsUndefined
  /\ response.status = 500
  /\ response.body.errorDetails = JsString(MsgNoStack)

\* C9: POST never ends by throwing: every request, also one whose body is not JSON
\* or is the JSON value null, is answered with status 200, 400 or 500 and a phrase.
C9_NeverThrows ==
  /\ rpc # "thrown"
  /\ rpc = "done" => /\ response.status \in {200, 400, 500}
                     /\ response.body.phrase \in Seq(STRING)

\* C10: when the route answers handleSubmit with a non-OK status, pulseData ends with
\* the phrase of the response and the color '#ff0000', and that phrase is what the
\* page displays.
C10_PageShowsRoutePhrase ==
  (/\ hpc = "done"
   /\ fetched.t = "response"
   /\ fetched.status \in {400, 500})
  => /\ pulseData.phrase = fetched.body.phrase
     /\ pulseData.color = "#ff0000"
     /\ DisplayedText = fetched.body.phrase

\* C11: the history never holds more than 30 samples, and it holds exactly the
\* most recent min(n, 30) of the n intensities pushed since it was last emptied,
\* in the order they arrived.
C11_BoundedHistory ==
  LET n == Len(arrivals)
      k == IF n < HistoryCap THEN n ELSE HistoryCap IN
  /\ Len(intensityHistory) <= HistoryCap
  /\ intensityHistory = SubSeq(arrivals, n - k + 1, n)

\* more than 30 pushes, of which the evicted first differs from the oldest kept
C11_Witness ==
  /\ Len(arrivals) = HistoryCap + 2
  /\ arrivals[1] # intensityHistory[1]
  /\ arrivals[Len(arrivals)] # intensityHistory[1]

\* a > b for fractions of positive denominators
Greater(a, b) == a.d > 0 /\ b.d > 0 /\ a.n * b.d > b.n * a.d

\* The interior positions of h that exceed both neighbours and 0.5
PeakIndices(h) ==
  {i \in 2..(Len(h) - 1) :
     /\ Greater(h[i], h[i - 1])
     /\ Greater(h[i], h[i + 1])
     /\ Above(h[i], 5)}

\* C12: on a history of n >= 10 samples detectRhythm returns p / (n / 2), p being
\* the number of interior samples strictly greater than both neighbours and than
\* 0.5; the first and the last sample and the samples of a plateau count for nothing.
C12_PeakDensity ==
  LET h == intensityHistory
      n == Len(h) IN
  n >= MinRhythmLen =>
    /\ detectRhythm(h).d # 0
    /\ detectRhythm(h).n * n = 2 * Cardinality(PeakIndices(h)) * detectRhythm(h).d

\* an odd length, counted peaks, and a last sample that rises above 0.5 uncounted
C12_Witness ==
  LET h == intensityHistory
      n == Len(h) IN
  /\ n = MinRhythmLen + 1
  /\ Cardinality(PeakIndices(h)) = 3
  /\ Greater(h[n], h[n - 1]) /\ Above(h[n], 5)
  /\ audioData # NULL /\ audioData.rhythmScore = detectRhythm(h)

\* a plateau above 0.5 in a history long enough to be scored
C12_PlateauSeen ==
  LET h == intensityHistory IN
  /\ Len(h) >= MinRhythmLen
  /\ \E i \in 2..(Len(h) - 1) :
        /\ Greater(h[i], h[i - 1]) /\ h[i] = h[i + 1] /\ Above(h[i], 5)

\* an interior maximum that does not exceed 0.5
C12_LowPeakSeen ==
  LET h == intensityHistory IN
  /\ Len(h) >= MinRhythmLen
  /\ \E i \in 2..(Len(h) - 1) :
        /\ Greater(h[i], h[i - 1]) /\ Greater(h[i], h[i + 1]) /\ ~Above(h[i], 5)

\* 0 <= x <= 1
InUnit(x) == x.d > 0 /\ 0 <= x.n /\ x.n <= x.d

\* C13: whatever snapshot of bytes a frame reads and whatever history has been
\* reached, the intensity, lowFreqEnergy, highFreqEnergy and rhythmScore that are
\* published lie in [0, 1]; twice the number of peaks never exceeds the length of
\* the history.
C13_FeaturesInUnit ==
  /\ 2 * Cardinality(PeakIndices(intensityHistory)) <= Len(intensityHistory)
  /\ InUnit(detectRhythm(intensityHistory))
  /\ audioData # NULL =>
        /\ InUnit(audioData.intensity)
        /\ InUnit(audioData.lowFreqEnergy)
        /\ InUnit(audioData.highFreqEnergy)
        /\ InUnit(audioData.rhythmScore)

\* every bin at 255 published as intensity 1 and band energies 1, with a history
\* that has peaks
C13_Witness ==
  /\ audioData # NULL
  /\ audioData.intensity.n = audioData.intensity.d
  /\ audioData.lowFreqEnergy.n = audioData.lowFreqEnergy.d
  /\ audioData.highFreqEnergy.n = audioData.highFreqEnergy.d
  /\ audioData.rhythmScore.n > 0

\* peaks at every other sample: the densest a history can be
C13_DensestSeen ==
  /\ Len(intensityHistory) = MinRhythmLen + 1
  /\ 2 * Cardinality(PeakIndices(intensityHistory)) = Len(intensityHistory) - 1
  /\ audioData # NULL /\ audioData.rhythmScore = detectRhythm(intensityHistory)

\* What a step of stopListening leaves behind
StopReleased ==
  /\ audioContextRef # 0 => ~ctxOpen'[audioContextRef]
  /\ sourceRef # 0 => ~srcConnected'[sourceRef]
  /\ audioContextRef' = 0 /\ sourceRef' = 0
  /\ analyserRef' = 0 /\ dataArrayRef' = 0
  /\ intensityHistory' = <<>>
  /\ ~isListening'
  /\ audioData' = NULL

\* C14: a step of stopListening closes the audio context that was current,
\* disconnects the source, nulls the four references, empties the history and
\* sets isListening to false and audioData to null; and from then on, while no
\* microphone request has been granted again (the analyser reference is still
\* null), no step publishes features.
C14_StopReleases ==
  [][/\ stopListening => StopReleased
     /\ (analyserRef = 0 /\ audioData' # audioData) => (audioData' = NULL \/ MicResolve)
    ]_vars

\* stopped, the first context closed, and the loop it left behind has run and ended
C14_Witness ==
  /\ Len(ctxOpen) >= 1 /\ ~ctxOpen[1] /\ ~srcConnected[1]
  /\ ~isListening /\ analyserRef = 0 /\ audioContextRef = 0
  /\ intensityHistory = <<>> /\ audioData = NULL
  /\ loops = 0 /\ pendingMic = 0

\* C15: in every reachable state of the capture, isListening = false implies that
\* audioData is null and that no analyzeAudio callback is still scheduled.
C15_NoFeaturesWhenInactive ==
  ~isListening => (audioData = NULL /\ loops = 0)

\* C16: a step in which the microphone request is rejected leaves isListening
\* false, audioData null, no analyser and no audio context stored, and starts no
\* analysis loop.
C16_DenialLeavesOff ==
  [][MicReject =>
       /\ ~isListening'
       /\ audioData' = NULL
       /\ analyserRef' = 0 /\ audioContextRef' = 0
       /\ loops' = loops
    ]_vars

\* The objects of one kind built since the component was mounted
CreatedSinceMount(kind) ==
  {o \in UNION {SceneObjects(s) : s \in mountedAt..session} : o.kind = kind}

\* C17: while the component is mounted, one scene, 5 ribbons, one dots object, one
\* web and one liquid have been created since the mount, however often audioData
\* has changed.
C17_CreatedOnce ==
  mounted =>
    /\ session - mountedAt + 1 = 1
    /\ Cardinality(CreatedSinceMount("ribbon")) = 5
    /\ Cardinality(CreatedSinceMount("dots")) = 1
    /\ Cardinality(CreatedSinceMount("web")) = 1
    /\ Cardinality(CreatedSinceMount("liquid")) = 1

\* Run s of the effect has been torn down
TornDown(s) ==
  /\ \A f \in rafQueue : f.s # s
  /\ Obj(s, "renderer", 0) \in disposed
  /\ \A o \in SceneObjects(s) :
        o.kind \in {"ribbon", "dots", "web", "liquid"} => o \in disposed
  /\ sceneChildren[s] = {}

\* C18: once the cleanup of a run of the effect has run, no animate callback of
\* that run is scheduled any more, its renderer is disposed, the geometry and the
\* material of every Line, Points and Mesh it created are disposed and its scene
\* is empty.
C18_Teardown ==
  \A s \in 1..session : (~mounted \/ s # session) => TornDown(s)

\* two runs torn down, the second after animate callbacks had run
C18_Witness ==
  /\ ~mounted
  /\ session = 2
  /\ animationFrameIdRef # NULL /\ animationFrameIdRef.s = 2 /\ animationFrameIdRef.n >= 2
  /\ TornDown(1) /\ TornDown(2)

\* a run torn down by a change of props while the next one has its callback waiting
C18_RerunSeen ==
  /\ mounted
  /\ session = 2 /\ mountedAt = 1
  /\ TornDown(1)
  /\ \E f \in rafQueue : f.s = 2

\* C19: while the component is mounted, the list animate iterates holds exactly 5
\* ribbons, each a child of the current scene and none disposed.
C19_FiveLiveRibbons ==
  mounted =>
    /\ Len(ribbonsRef) = 5
    /\ \A i \in 1..Len(ribbonsRef) :
          /\ ribbonsRef[i] \in sceneChildren[sceneRef]
          /\ ribbonsRef[i] \notin disposed

\* -5 <= x <= 5
InCube(x) == x.d > 0 /\ 0 - 5 * x.d <= x.n /\ x.n <= 5 * x.d

\* C20: every coordinate createDots writes, and every coordinate left by a run of
\* animate, sinusoidal or flocking, lies in [-5, 5].
C20_DotsInCube ==
  /\ \A x \in CreatedDots : InCube(x)
  /\ dotPosition # NULL => InCube(dotPosition)

\* flocking: a velocity above 1 has carried the coordinate to the wall at 5
C20_Witness ==
  /\ rev = "sentiment"
  /\ dotPosition # NULL
  /\ dotPosition = FInt(5)
  /\ Greater(dotVelocity, FInt(1))

\* sinusoidal: the coordinate stopped at the wall at 5, which no sum of steps hits
C20_SwarmAtWall ==
  /\ rev = "base"
  /\ dotPosition # NULL
  /\ dotPosition = FInt(5)

\* word occurs in text whatever the case of the letters of text
OccursIn(text, word) ==
  \E k \in 0..(Len(text) - Len(word)) :
    \A j \in 1..Len(word) :
      \/ text[k + j] = word[j]
      \/ \E u \in 1..26 : UpperCase[u] = text[k + j] /\ LowerCase[u] = word[j]

\* The keyword group the phrase of the mapper's input falls in: the first that matches
KeywordGroup ==
  LET p == motionIn.phrase.s IN
  IF ~Truthy(motionIn.phrase) THEN "none"
  ELSE IF OccursIn(p, KwEthereal) \/ OccursIn(p, KwSpirit) THEN "ethereal"
  ELSE IF OccursIn(p, KwDark) \/ OccursIn(p, KwShadow) THEN "dark"
  ELSE IF OccursIn(p, KwEcho) \/ OccursIn(p, KwResonance) THEN "echo"
  ELSE "none"

\* C22: in the phrase-aware mapper the first keyword group the phrase matches,
\* whatever the case of its letters, decides the color whatever the mood and the
\* sentiment are, and it alone is applied: ethereal/spirit gives 0x88ccff,
\* ribbonSpeed x 1.5 and glowIntensity 2; dark/shadow gives 0x440044 and
\* webPulse x 2; echo/resonance gives 0x00aaff and liquidFlow x 1.5.  Without a
\* match the color is the sentiment color for a non-zero score and the mood color
\* otherwise.
C22_KeywordOverride ==
  control.t = "phrase" =>
    LET mood == MoodControl(motionIn.soundType, motionIn.intensity, motionIn.rhythmScore)
        score == IF Truthy(motionIn.phrase) THEN motionIn.score ELSE 0
        g == KeywordGroup
        c == control.v IN
    /\ c.baseColor =
         (CASE g = "ethereal" -> "0x88ccff"
            [] g = "dark" -> "0x440044"
            [] g = "echo" -> "0x00aaff"
            [] OTHER -> IF score > 0 THEN "0xffff00"
                        ELSE IF score < 0 THEN "0x000088" ELSE mood.baseColor)
    /\ FEq(c.ribbonSpeed,
           IF g = "ethereal" THEN FMul(F(3, 2), mood.ribbonSpeed) ELSE mood.ribbonSpeed)
    /\ FEq(c.glowIntensity, IF g = "ethereal" THEN FInt(2) ELSE FInt(1))
    /\ FEq(c.webPulse, IF g = "dark" THEN FMul(FInt(2), mood.webPulse) ELSE mood.webPulse)
    /\ FEq(c.liquidFlow,
           IF g = "echo" THEN FMul(F(3, 2), mood.liquidFlow) ELSE mood.liquidFlow)
    /\ FEq(c.dotSwarm, mood.dotSwarm)

\* "dark spirit" with a negative score under a chaotic mood: the ethereal group
\* alone was applied
C22_Witness ==
  /\ control.t = "phrase"
  /\ motionIn.phrase = JsString(<<"d", "a", "r", "k", " ", "s", "p", "i", "r", "i", "t">>)
  /\ motionIn.score < 0
  /\ motionIn.soundType = "chaotic"
  /\ motionIn.intensity.n > 0
  /\ control.v.baseColor = "0x88ccff"
  /\ FEq(control.v.webPulse, FMul(FInt(3), motionIn.intensity))

\* "DARK": upper-case letters match the dark group
C22_UpperCaseSeen ==
  /\ control.t = "phrase"
  /\ motionIn.phrase = JsString(<<"D", "A", "R", "K">>)
  /\ motionIn.score > 0
  /\ motionIn.intensity.n > 0
  /\ control.v.baseColor = "0x440044"

\* "calm" with a positive score: no keyword, the sentiment color
C22_SentimentSeen ==
  /\ control.t = "phrase"
  /\ motionIn.phrase = JsString(<<"c", "a", "l", "m">>)
  /\ motionIn.score > 0
  /\ motionIn.soundType = "sharp"
  /\ control.v.baseColor = "0xffff00"

\* C29: when no phrase is given, for every soundType, intensity and rhythmScore
\* the phrase-aware mapper returns the same ribbonSpeed, dotSwarm, webPulse,
\* liquidFlow and baseColor as the base mapper.
C29_PhraseMapperRefinesBase ==
  (control # NULL /\ motionIn.phrase = JsUndefined) =>
    LET b == grokShapeControlBase(motionIn.soundType, motionIn.intensity,
                                  motionIn.rhythmScore)
        p == grokShapeControl(motionIn.soundType, motionIn.intensity,
                              motionIn.rhythmScore, motionIn.phrase, motionIn.score) IN
    /\ control.v = (IF control.t = "base" THEN b ELSE p)
    /\ FEq(p.ribbonSpeed, b.ribbonSpeed)
    /\ FEq(p.dotSwarm, b.dotSwarm)
    /\ FEq(p.webPulse, b.webPulse)
    /\ FEq(p.liquidFlow, b.liquidFlow)
    /\ p.baseColor = b.baseColor
    /\ DOMAIN p = DOMAIN b \cup {"glowIntensity"}

\* C25: in every reachable state of the capture at most one analyzeAudio callback
\* is scheduled, so that a frame pushes at most one sample to the history.
C25_SingleLoop == loops <= 1

\* C26: once stopListening has run and no microphone request is pending, every
\* AudioContext that was created is closed and every source disconnected.
C26_NoContextLeak ==
  (~isListening /\ audioContextRef = 0 /\ sourceRef = 0 /\ pendingMic = 0) =>
    \A id \in 1..Len(ctxOpen) : ~ctxOpen[id] /\ ~srcConnected[id]

\* C27: POST validates the description before it looks at the credential (an
\* invalid description with the credential missing gives 400), issues an upstream
\* request only after both checks have passed, and issues at most one per request.
C27_CheckOrder ==
  /\ upstreamCalls <= 1
  /\ upstreamCalls > 0 =>
        /\ request.json = "object"
        /\ request.description.t = "string"
        /\ request.description.s # <<>>
        /\ KeySet
  /\ (/\ rpc = "done"
      /\ request.json \in {"object", "scalar"}
      /\ (request.description.t # "string" \/ request.description.s = <<>>))
     => (response.status = 400 /\ upstreamCalls = 0)
  /\ (rpc = "done" /\ response.status = 500 /\ upstreamCalls = 0) => ~KeySet

\* the description null with the credential missing has been answered 400
C27_Witness ==
  /\ rpc = "done"
  /\ request.json = "object"
  /\ request.description = JsNull
  /\ ~KeySet
  /\ response.status = 400
  /\ upstreamCalls = 0

\* a failed upstream call has been answered 500 after a single request
C27_NoRetrySeen ==
  /\ rpc = "done"
  /\ upstream # NULL /\ upstream.kind = "notOk"
  /\ response.status = 500
  /\ upstreamCalls = 1

\* C28: every response of status 200 carries a phrase of at least one character.
C28_NonEmptyPhrase ==
  (rpc = "done" /\ response.status = 200) => response.body.phrase # <<>>


\* C21: every vertex coordinate createRibbons, createWeb and createLiquid write,
\* and every coordinate of a ribbon, the web or the liquid left by any number of
\* runs of animate, lies in [-5, 5]; the z of a web vertex does not grow with
\* the frames.
C21_ShapesInCube ==
  /\ \A q \in ShapeProbes : \A x \in CreatedAt(q) : InCube(x)
  /\ positionsAt # NULL => InCube(positionsAt)

\* everything but the z of a web vertex in page.tsx stays in the cube
C21_ExceptWebDepth ==
  (positionsAt # NULL /\ ~(rev = "base" /\ run.probe = "web.z")) => InCube(positionsAt)

\* animate has run in this step: as the last call of the body of the effect, or
\* as a callback of requestAnimationFrame
EffectRan == session' # session
CallbackRan == session' = session /\ mounted' = mounted /\ rafQueue' # rafQueue

\* C23: every run of animate requests exactly one frame, adds exactly 0.05 to the
\* animation time and calls render once; with audioData null or of intensity 0 it
\* leaves the vertex buffers and the colors as they were (as created, when the
\* effect has just built them); the animation time of a mounted component never
\* decreases and a re-run of the effect does not reset it.
C23_AnimateStep ==
  [][/\ (EffectRan \/ CallbackRan) =>
          /\ Cardinality(rafQueue' \ rafQueue) = 1
          /\ timeRef' = FAdd(IF mounted THEN timeRef ELSE FInt(0), F(1, 20))
          /\ renders' = (IF mounted THEN renders ELSE 0) + 1
     /\ CallbackRan =>
          \A f \in rafQueue \ rafQueue' :
            ~Audible(f.props) =>
              /\ positionsAt' = positionsAt
              /\ dotPosition' = dotPosition
              /\ dotVelocity' = dotVelocity
              /\ materialColor' = materialColor
     /\ (EffectRan /\ ~Audible(vizProps')) =>
          /\ run.probe = "dots" => dotPosition' \in CreatedDots /\ dotVelocity' = FInt(0)
          /\ run.probe # "dots" => positionsAt' \in CreatedAt(run.probe)
          /\ materialColor' = CreatedColor(ProbeKind(run.probe))
     /\ (mounted /\ mounted') => ~FLt(timeRef', timeRef)
    ]_vars

\* the effect has run again under silent props, after frames of the run before
\* it: the time has gone on and the new buffers are as created
C23_Witness ==
  /\ mounted
  /\ session > mountedAt
  /\ ~Audible(vizProps)
  /\ FGt(timeRef, F(3, 20))
  /\ renders >= 4
  /\ run.probe = "web.z"
  /\ positionsAt = FInt(0)
  /\ materialColor = "0x8888ff"

\* a frame under audible props has moved and recolored the followed vertex
C23_AudibleSeen ==
  /\ mounted
  /\ Audible(vizProps)
  /\ run.probe = "ribbon.z"
  /\ positionsAt = FInt(2)
  /\ materialColor = "0xff00ff"


C24_BlankSeen ==
  /\ hpc = "done"
  /\ description = Blank
  /\ ~isLoading
  /\ rpc = "idle" /\ request = NULL
  /\ pulseData # NULL /\ pulseData.phrase = MsgEnterDescription

\* the route answered 200 and the page shows it
C24_OkSeen ==
  /\ hpc = "done"
  /\ ~isLoading
  /\ fetched # NULL /\ fetched.t = "response" /\ fetched.status = 200
  /\ pulseData # NULL

====
